---- MODULE Spec2Model ----
(***************************************************************************)
(* Worker liveness / task distribution protocol of Chapter-Threads:        *)
(*   Projects/distributed/worker_main.py   (worker: heartbeat + task loop) *)
(*   Projects/send_task.py                 (producer)                      *)
(*   Projects/image_api/processors.py      (process_single_image)          *)
(*   Projects/image_api/views.py           (cluster_status)                *)
(*   Projects/simple_monitoring/metrics_collector.py (collect_metrics)     *)
(* The Redis broker is modelled by what the used commands do: a list       *)
(* (RPUSH / BLPOP / LLEN) and string cells with a time-to-live             *)
(* (SET .. EX / GET / INCR / KEYS).  Time advances in whole seconds.       *)
(***************************************************************************)
EXTENDS Integers, Sequences, FiniteSets, TLC

\* ------------------------------------------------------------------ bounds
MaxPush == 3          \* producer pushes at most this many payloads in a run
MaxJitter == 1        \* a due heartbeat thread is scheduled at most this late (s)
MaxPolledPush == 2    \* pushes in the runs that follow the collector
MaxActive == 10       \* listed workers in a snapshot handed to the engine
MaxCurrent == 5       \* worker count the engine is asked about
MaxQueueLen == 10     \* queue length in a snapshot handed to the engine
MaxCount == 10        \* tasks counted in a snapshot handed to the engine
MaxImages == 3        \* images of a batch call
MaxChunks == 2        \* chunks of an uploaded file

\* ------------------------------------------------------- program constants
HEARTBEAT_TTL == 10   \* worker_main.py:34  ex=10
\* (variant: a sleep longer than the TTL)
HeartbeatSleepLong == HEARTBEAT_TTL + 2
HEARTBEAT_SLEEP == 5  \* worker_main.py:35  time.sleep(5)
BUSY_TTL == 15        \* worker_main.py:41  ex=15

Workers == {"w1", "w2"}          \* worker_id = socket.gethostname()
TimedWorkers == {"w1"}           \* the worker followed second by second

Min(a, b) == IF a < b THEN a ELSE b

\* ------------------------------------------------------------ filter names
\* FilterFactory.AVAILABLE_FILTERS (the registered names)
AVAILABLE_FILTERS == {"resize", "blur", "brightness", "sharpen", "edges"}

\* --------------------------------------------------------------- payloads
\* What lies in the list "image_tasks" is text.  A text is either the JSON
\* encoding of a dict (kind "json", obj = the dict json.loads returns) or
\* text json.loads rejects (kind "text").
SendTask ==
    [kind |-> "json",
     obj  |-> [image_path |-> "static/images/sample_4k.jpg",
               filters    |-> <<"resize", "blur", "brightness">>]]
BogusTask ==
    [kind |-> "json",
     obj  |-> [image_path |-> "static/images/sample_4k.jpg",
               filters    |-> <<"resize", "sepia">>]]
NoFiltersTask ==
    [kind |-> "json",
     obj  |-> [image_path |-> "static/images/sample_4k.jpg"]]
GarbageText == [kind |-> "text", obj |-> [raw |-> "not json"]]

Payloads == {SendTask, BogusTask, NoFiltersTask, GarbageText}
NoData == [kind |-> "none", obj |-> [raw |-> ""]]

\* json.loads(data): raises on text that is not JSON
JsonLoads(data) ==
    IF data.kind = "json" THEN [ok |-> TRUE, value |-> data.obj]
                          ELSE [ok |-> FALSE, value |-> data.obj]

\* ------------------------------------------------------------ redis cells
\* A cell holds a string and the seconds it has left (0: no expiry).
Fields == {"alive", "busy", "success", "fail"}
Keys == {<<"worker", w, f>> : w \in Workers, f \in Fields}
Key(w, f) == <<"worker", w, f>>
NoKey == [val |-> "nil", ttl |-> 0]

\* decimal text of a counter, and back (redis stores and returns strings)
Digits == <<"0", "1", "2", "3", "4", "5", "6", "7", "8", "9">>
IntToStr(n) == Digits[n + 1]
StrToInt(s) == (CHOOSE i \in 1..Len(Digits) : Digits[i] = s) - 1

\* RPUSH key value: the value is appended at the tail
\* (variant: LPUSH, the value is put at the head)
RedisLpush(q, v) == <<v>> \o q
RedisRpush(q, v) == Append(q, v)

\* what BLPOP leaves of a non-empty list: the head is removed
\* (variant: the head is read and left in place)
RedisLpopPeek(q) == q
RedisLpop(q) == Tail(q)

\* GET key -> string, or "nil" (None) when the key is absent or expired
RedisGet(store, k) == store[k].val
\* SET key value EX ttl
\* (variant: SET without EX)
RedisSetNoExpiry(store, k, v, ttl) == [store EXCEPT ![k] = [val |-> v, ttl |-> 0]]
RedisSetEx(store, k, v, ttl) == [store EXCEPT ![k] = [val |-> v, ttl |-> ttl]]
\* (variant: SET key 1 in place of INCR)
RedisSetOne(store, k) == [store EXCEPT ![k] = [val |-> "1", ttl |-> 0]]
\* (variant: the counter given the expiry of the busy flag after the INCR)
RedisIncrExpiring(store, k) ==
    [store EXCEPT ![k] =
        [val |-> IntToStr((IF @.val = "nil" THEN 0 ELSE StrToInt(@.val)) + 1),
         ttl |-> BUSY_TTL]]
\* INCR key: an absent key counts from 0; the key's expiry is left as it is
RedisIncr(store, k) ==
    [store EXCEPT ![k] =
        [val |-> IntToStr((IF @.val = "nil" THEN 0 ELSE StrToInt(@.val)) + 1),
         ttl |-> @.ttl]]
\* KEYS worker:*:alive
\* (variant: KEYS worker:*)
RedisKeysWorker(store) ==
    {k \in DOMAIN store : store[k].val # "nil" /\ k[1] = "worker"}
RedisKeysAlive(store) ==
    {k \in DOMAIN store : store[k].val # "nil" /\ k[1] = "worker" /\ k[3] = "alive"}
\* one second passes: cells with an expiry lose a second, at 0 the key is gone
RedisAge(store) ==
    [k \in DOMAIN store |->
        IF store[k].ttl = 0 THEN store[k]
        ELSE IF store[k].ttl = 1 THEN NoKey
        ELSE [val |-> store[k].val, ttl |-> store[k].ttl - 1]]

\* int(r.get(key) or 0)
IntOr0(s) == IF s = "nil" THEN 0 ELSE StrToInt(s)

\* ------------------------------------------------- process_single_image
\* The filters the if/elif chain of process_single_image applies
THREAD_FILTERS == {"resize", "blur", "brightness"}
IsThreadFilter(f) == f \in THREAD_FILTERS

\* (variant: no validation of the filter names)
ProcessSingleImageUnvalidated(image_path, filters, ioOk) ==
    IF ~ioOk
    THEN [status |-> "error", processed_path |-> "None", reported |-> filters,
          opened |-> FALSE, applied |-> <<>>]
    ELSE [status |-> "success", processed_path |-> "file", reported |-> filters,
          opened |-> TRUE, applied |-> SelectSeq(filters, IsThreadFilter)]

\* (variant: each name is checked when its turn to be applied comes, after
\* the image was opened and the names before it were applied)
ProcessSingleImageLazy(image_path, filters, ioOk) ==
    LET bad == {i \in 1..Len(filters) : filters[i] \notin AVAILABLE_FILTERS} IN
    IF ~ioOk
    THEN [status |-> "error", processed_path |-> "None", reported |-> filters,
          opened |-> FALSE, applied |-> <<>>]
    ELSE IF bad # {}
    THEN [status |-> "error", processed_path |-> "nokey", reported |-> <<>>,
          opened |-> TRUE,
          applied |-> SelectSeq(SubSeq(filters, 1,
                                       (CHOOSE i \in bad : \A j \in bad : i <= j) - 1),
                                IsThreadFilter)]
    ELSE [status |-> "success", processed_path |-> "file", reported |-> filters,
          opened |-> TRUE, applied |-> SelectSeq(filters, IsThreadFilter)]

\* ImageProcessor.process_single_image(image_path, filters).  ioOk: whether
\* opening the image (or the default asset) and saving the output succeed.
\* opened / applied record what was done to the image.
ProcessSingleImage(image_path, filters, ioOk) ==
    IF \E i \in 1..Len(filters) : filters[i] \notin AVAILABLE_FILTERS
    THEN [status |-> "error", processed_path |-> "nokey", reported |-> <<>>,
          opened |-> FALSE, applied |-> <<>>]
    ELSE IF ~ioOk
    THEN [status |-> "error", processed_path |-> "None", reported |-> filters,
          opened |-> FALSE, applied |-> <<>>]
    ELSE [status |-> "success", processed_path |-> "file", reported |-> filters,
          opened |-> TRUE, applied |-> SelectSeq(filters, IsThreadFilter)]

NoResult ==
    [status |-> "none", processed_path |-> "nokey", reported |-> <<>>,
     opened |-> FALSE, applied |-> <<>>]

\* the attempt raised: no result was bound
Raised ==
    [status |-> "raised", processed_path |-> "nokey", reported |-> <<>>,
     opened |-> FALSE, applied |-> <<>>]

\* ------------------------------------------------------ worker_process_mp
\* The filters the if/elif chain of worker_process_mp applies
MP_FILTERS == {"sharpen", "edges"}
IsProcessFilter(f) == f \in MP_FILTERS

\* worker_process_mp(img_path, filters), the task of the process pool.
\* ioOk: whether opening the image and saving the output succeed; the dict
\* of the except clause has no processed_path and no filters_applied.
WorkerProcessMp(img_path, filters, ioOk) ==
    IF \E i \in 1..Len(filters) : filters[i] \notin AVAILABLE_FILTERS
    THEN [status |-> "error", processed_path |-> "nokey", reported |-> <<>>,
          opened |-> FALSE, applied |-> <<>>]
    ELSE IF ~ioOk
    THEN [status |-> "error", processed_path |-> "nokey", reported |-> <<>>,
          opened |-> FALSE, applied |-> <<>>]
    ELSE [status |-> "success (multiprocessing)", processed_path |-> "file",
          reported |-> filters, opened |-> TRUE,
          applied |-> SelectSeq(filters, IsProcessFilter)]

\* ------------------------------------------------------- process_batch_*
\* A future: not finished, finished with the dict its task returned, or
\* finished with an exception (future.result() raises).
Pending == [state |-> "pending"]
Done(out) == [state |-> "done", out |-> out]
FutureRaised == [state |-> "raised"]

\* process_batch_threading lines 184-192: the dict appended when
\* future.result() raises; it has an error text and no status
NoStatus ==
    [status |-> "nokey", processed_path |-> "nokey", reported |-> <<>>,
     opened |-> FALSE, applied |-> <<>>]

\* process_batch_threading lines 178-192, one round of the as_completed
\* loop: results after future f of image i was yielded
ThreadsCollect(res, i, f) ==
    IF f.state = "done"
    THEN Append(res, [image |-> i, out |-> f.out])
    ELSE Append(res, [image |-> i, out |-> NoStatus])

\* process_batch_multiprocessing lines 219-223, one round: an exception
\* of future.result() is logged, nothing is appended
ProcessesCollect(res, i, f) ==
    IF f.state = "done"
    THEN Append(res, [image |-> i, out |-> f.out])
    ELSE res

\* the filter lists of the batch calls followed
FilterLists ==
    {<<>>, <<"resize">>, <<"sharpen">>, <<"resize", "sepia">>,
     <<"edges", "blur">>, <<"resize", "blur", "brightness">>}

\* ---------------------------------------------------- process_image_view
\* the requests followed and the names their uploads can have
Requests == {"r1", "r2"}
FileNames == {"test.jpg", "other.jpg"}
\* the bytes request r uploads, as MaxChunks chunks at most; no two
\* requests upload the same bytes
Upload(r, n) == [i \in 1..n |-> <<r, i>>]
\* bytes no request wrote: the gap a write beyond the end of a file leaves
Zeros == <<"zeros", 0>>

\* views.py line 460: temp_path = os.path.join(temp_dir, image_file.name),
\* the file of static/uploaded the request r writes and has processed
TempPath(r, name) == name

\* f.write(chunk) through a handle that has written pos chunks: the chunk
\* goes to the position of the handle, whatever the file holds by now
FileWrite(content, pos, chunk) ==
    [i \in 1..(IF pos + 1 > Len(content) THEN pos + 1 ELSE Len(content)) |->
        IF i = pos + 1 THEN chunk
        ELSE IF i <= Len(content) THEN content[i]
        ELSE Zeros]

\* cluster_status: [key.split(":")[1] for key in r.keys("worker:*:alive")]
\* (variant: key.split(":")[0])
ClusterStatusPrefix(store) == {k[1] : k \in RedisKeysAlive(store)}
ClusterStatus(store) == {k[2] : k \in RedisKeysAlive(store)}

\* GET /cluster/status/ as the client sees it.  The view has no handler
\* around r.keys: on an unreachable broker the ConnectionError leaves the
\* view and the framework answers 500 with an error page, no JSON.
ClusterStatusResponse(up, store) ==
    IF up
    THEN [status |-> 200, active_workers |-> ClusterStatus(store),
          count |-> Cardinality(ClusterStatus(store))]
    ELSE [status |-> 500]

\* no request has been answered yet
NoResp == [status |-> 0]

\* ------------------------------------------------------- collect_metrics
\* A float that is a quotient of two integers, as numerator and denominator
\* in lowest terms.
RECURSIVE Gcd(_, _)
Gcd(a, b) == IF b = 0 THEN a ELSE Gcd(b, a % b)
Quot(n, d) == LET g == Gcd(n, d) IN <<n \div g, d \div g>>

\* the locals of collect_metrics before its reads (lines 19-32)
NoAcc == [active_workers |-> 0, busy_workers |-> 0, total_success |-> 0,
          total_fail |-> 0]

\* lines 51-53: the derived metrics
\* (variant: no task counted reads as nothing succeeded)
SuccessRateZeroDefault(total_success, total_fail) ==
    IF total_success + total_fail > 0
    THEN Quot(100 * total_success, total_success + total_fail)
    ELSE <<0, 1>>
SuccessRate(total_success, total_fail) ==
    IF total_success + total_fail > 0
    THEN Quot(100 * total_success, total_success + total_fail)
    ELSE <<100, 1>>
\* (variant: the utilization given in percent, as success_rate is)
WorkerUtilizationPercent(busy_workers, active_workers) ==
    IF active_workers # 0 THEN Quot(100 * busy_workers, active_workers)
    ELSE <<0, 1>>
\* (variant: the share of the configured fleet, not of the listed workers)
WorkerUtilizationOfFleet(busy_workers, active_workers) ==
    IF active_workers # 0 THEN Quot(busy_workers, Cardinality(Workers))
    ELSE <<0, 1>>
WorkerUtilization(busy_workers, active_workers) ==
    IF active_workers # 0 THEN Quot(busy_workers, active_workers) ELSE <<0, 1>>

\* lines 55-64: the returned dict, without the host's cpu and memory gauges
Snapshot(a, queue_length) ==
    [active_workers     |-> a.active_workers,
     busy_workers       |-> a.busy_workers,
     worker_utilization |-> WorkerUtilization(a.busy_workers, a.active_workers),
     queue_length       |-> queue_length,
     success_rate       |-> SuccessRate(a.total_success, a.total_fail)]

\* no call has returned yet
NoSnap ==
    [active_workers |-> -1, busy_workers |-> -1, worker_utilization |-> <<0, 1>>,
     queue_length |-> -2, success_rate |-> <<0, 1>>]

\* -------------------------------------------- scaling recommendations
\* cli.py, _display_recommendation(worker_count): the advice printed under
\* the worker list
DisplayRecommendation(worker_count) ==
    IF worker_count < 2 THEN "Aumentar workers"
    ELSE IF worker_count < 4 THEN "Mantener o escalar suavemente"
    ELSE "Escalabilidad optima"

\* comparisons of quotients with positive denominators
Geq(x, y) == x[1] * y[2] >= y[1] * x[2]
Less(x, y) == ~Geq(x, y)
\* ceil(n / d) for n >= 0, d > 0
Ceil(n, d) == (n + d - 1) \div d

\* ScalingRecommendations, the conditions and amounts of its rules.
\* rule 1: below the minimum safe fleet size
\* (variant: only an empty fleet is below the minimum)
BelowMinimumEmptyOnly(current_workers) == current_workers < 1
BelowMinimum(current_workers) == current_workers < 2
\* rules 2 and 3: workers saturated, queue backlog
Saturated(u) == Geq(u, <<4, 5>>)
Backlog(q) == q >= 5
\* rule 2: one more worker per five queued tasks, rounded up
\* (variant: rounded down)
BacklogGrowthFloor(q) == q \div 5
BacklogGrowth(q) == Ceil(q, 5)
\* rule 4: low success rate, and the utilization that makes it overload
Failing(sr) == Less(sr, <<70, 1>>)
\* (variant: a low success rate alone counts as overload)
OverloadedAlways(u) == TRUE
Overloaded(u) == Less(<<1, 2>>, u)
\* rule 5: idle workers, empty queue, more than the minimum fleet
\* (variant: no minimum fleet size kept when scaling down)
FleetIdleAnySize(u, q, current_workers) ==
    Geq(<<1, 5>>, u) /\ q = 0
\* (variant: an unknown queue length read as an empty queue)
FleetIdleUnknownQueue(u, q, current_workers) ==
    Geq(<<1, 5>>, u) /\ q <= 0 /\ current_workers > 2
FleetIdle(u, q, current_workers) ==
    Geq(<<1, 5>>, u) /\ q = 0 /\ current_workers > 2

\* confidence: 0.5 for no active worker, linear up to 1.0 at four
Confidence(active_workers) == Quot(4 + Min(active_workers, 4), 8)

\* ScalingRecommendations, the decision table: the first rule that applies
\* decides.
Recommend(snapshot, current_workers) ==
    LET q == snapshot.queue_length
        u == snapshot.worker_utilization
        sr == snapshot.success_rate
        R(action, urgency, n, reason) ==
            [current_workers |-> current_workers, recommended_workers |-> n,
             action |-> action, urgency |-> urgency, reason |-> reason,
             confidence |-> Confidence(snapshot.active_workers)]
    IN  IF BelowMinimum(current_workers)
        THEN R("scale_up", "high", current_workers + 2,
               "below minimum safe fleet size")
        ELSE IF Backlog(q) /\ Saturated(u)
        THEN R("scale_up", "high", current_workers + BacklogGrowth(q),
               "queue backlog with saturated workers")
        ELSE IF Saturated(u)
        THEN R("scale_up", "medium", current_workers + 1, "workers saturated")
        ELSE IF Failing(sr)
        THEN IF Overloaded(u)
             THEN R("scale_up", "medium", current_workers + 1,
                    "error rate suggests overload, not code defect")
             ELSE R("maintain", "low", current_workers,
                    "low success rate without load")
        ELSE IF FleetIdle(u, q, current_workers)
        THEN R("scale_down", "low", current_workers - 1, "fleet idle")
        ELSE R("maintain", "none", current_workers, "within limits")

\* what the engine is handed: the snapshot the collector returns for a
\* listed workers, b of them busy, ok tasks succeeded and bad failed, a
\* queue length q; and the worker count n it is asked about
RecInput(a, b, ok, bad, q, n) ==
    [snapshot |->
        Snapshot([active_workers |-> a, busy_workers |-> b,
                  total_success |-> ok, total_fail |-> bad], q),
     current_workers |-> n]
\* nothing handed to the engine, nothing returned, nothing printed
NoArgs == [snapshot |-> NoSnap, current_workers |-> -1]
NoRecommendation == [action |-> "none"]
NoAdvice == "none"

\* ------------------------------------------------------------------ state
VARIABLES
    brokerUp,   \* the Redis server is reachable
    queue,      \* the list "image_tasks"
    kv,         \* the cells worker:<id>:{alive,busy,success,fail}
    pc,         \* per worker: where its main thread stands
    hb,         \* per worker: its heartbeat thread ("off", "run", "dead")
    hbTimer,    \* per worker: seconds of time.sleep(5) left (negative: late)
    data,       \* per worker: the text popped last
    result,     \* per worker: result of the attempt in progress
    pushed,     \* history: payloads pushed so far
    taken,      \* history, per worker: payloads this identity popped
    lost,       \* history, per worker: payloads popped and never counted
    steps,      \* history, per worker: what was done for the current task
    busyAge,    \* history, per worker: seconds since the last busy write,
                \*   counted up to BUSY_TTL + 1 (never, or longer ago)
    aliveAge,   \* history, per worker: seconds since the last publication,
                \*   counted up to HEARTBEAT_TTL + 1 (never, or longer ago)
    upAge,      \* history, per worker: seconds since the process started,
                \*   counted up to HEARTBEAT_SLEEP
    col,        \* collect_metrics: where the call stands ("idle": no call)
    colIds,     \* collect_metrics: worker_ids still to visit
    colWid,     \* collect_metrics: the wid of the current loop round
    acc,        \* collect_metrics: active_workers, busy_workers, total_*
    snap,       \* the dict the last collect_metrics returned, kept while
                \*   nothing but the collector has acted since
    calm,       \* history: collections finished since anything but the
                \*   collector last acted (-1: one was under way then)
    resp,       \* what the last GET /cluster/status/ of the collector got,
                \*   kept while nothing but the collector has acted since
    recArgs,    \* the snapshot and worker count handed to the engine
    rec,        \* the Recommendation the engine returned for them
    shown,      \* the advice the CLI printed for that worker count
    qseq,       \* history: for each element of the list, the number of
                \*   the push that put it there (1 for the first push)
    bMode,      \* process_batch_*: the pool of the call ("threads",
                \*   "processes"; "none": no call)
    bPaths,     \* process_batch_*: image_paths, as the number of images
    bFilters,   \* process_batch_*: filters
    fut,        \* process_batch_*: per image, its future
    collected,  \* process_batch_*: the futures as_completed has yielded
    results,    \* process_batch_*: the list results
    returned,   \* process_batch_*: the call has returned results
    polled,     \* history, kept while the dashboard loop runs: total_success
                \*   and total_fail of the collect_metrics call that
                \*   returned last
    upName,     \* process_image_view, per request: image_file.name
    upChunks,   \* process_image_view, per request: the chunks of the
                \*   uploaded file (0: the request has no image)
    upPc,       \* process_image_view, per request: where the view stands
    upPos,      \* process_image_view, per request: chunks written through f
    upFiles,    \* the files of static/uploaded, by name, as lists of chunks
    upSeen      \* history, per request: the content of temp_path when
                \*   process_single_image opened it

colVars == <<col, colIds, colWid, acc>>
recVars == <<recArgs, rec, shown>>
batchVars == <<bMode, bPaths, bFilters, fut, collected, results, returned>>
uploadVars == <<upName, upChunks, upPc, upPos, upFiles, upSeen>>

\* Anything but the collector acts: a collection under way is no longer one
\* made on an unchanged broker, and the dict returned last is out of date.
Disturb ==
    /\ calm' = IF col = "idle" THEN 0 ELSE -1
    /\ snap' = NoSnap
    /\ resp' = NoResp

vars ==
    <<brokerUp, queue, kv, pc, hb, hbTimer, data, result,
      pushed, taken, lost, steps, busyAge, aliveAge, upAge, colVars, snap, calm,
      resp, recVars, qseq, batchVars, polled, uploadVars>>

\* every process of the fleet before it has run
InitFleet ==
    /\ brokerUp = TRUE
    /\ queue = <<>>
    /\ kv = [k \in Keys |-> NoKey]
    /\ pc = [w \in Workers |-> "off"]
    /\ hb = [w \in Workers |-> "off"]
    /\ hbTimer = [w \in Workers |-> 0]
    /\ data = [w \in Workers |-> NoData]
    /\ result = [w \in Workers |-> NoResult]
    /\ pushed = 0
    /\ taken = [w \in Workers |-> 0]
    /\ lost = [w \in Workers |-> 0]
    /\ steps = [w \in Workers |-> <<>>]
    /\ busyAge = [w \in Workers |-> BUSY_TTL + 1]
    /\ aliveAge = [w \in Workers |-> HEARTBEAT_TTL + 1]
    /\ upAge = [w \in Workers |-> 0]
    /\ col = "idle"
    /\ colIds = {}
    /\ colWid = "none"
    /\ acc = NoAcc
    /\ snap = NoSnap
    /\ calm = 0
    /\ resp = NoResp
    /\ qseq = <<>>

\* no dashboard runs: calls of collect_metrics are single calls (the CLI)
NoDashboard == <<-2, -2>>
\* the dashboard loop runs and no call has returned yet
NoPoll == <<-1, -1>>

\* no request to process_image_view
NoUpload ==
    /\ upName = [r \in Requests |-> "none"]
    /\ upChunks = [r \in Requests |-> 0]
    /\ upPc = [r \in Requests |-> "none"]
    /\ upPos = [r \in Requests |-> 0]
    /\ upFiles = [n \in FileNames |-> <<>>]
    /\ upSeen = [r \in Requests |-> <<>>]

\* no batch call
NoBatch ==
    /\ bMode = "none"
    /\ bPaths = 0
    /\ bFilters = <<>>
    /\ fut = <<>>
    /\ collected = {}
    /\ results = <<>>
    /\ returned = FALSE

Init ==
    /\ InitFleet
    /\ NoBatch
    /\ NoUpload
    /\ polled = NoDashboard
    /\ recArgs = NoArgs
    /\ rec = NoRecommendation
    /\ shown = NoAdvice

\* pc values at which the main thread holds a popped task it has not counted
InFlight == {"set_busy1", "process", "count", "except"}
Running(w) == pc[w] \notin {"off", "dead"}

\* An uncaught exception in the main thread, or a termination from outside,
\* ends the process, and with it the daemon heartbeat thread and all that
\* the process held in memory.  A task held and not yet counted is gone.
Die(w, how, holding) ==
    /\ pc' = [pc EXCEPT ![w] = how]
    /\ hb' = [hb EXCEPT ![w] = "off"]
    /\ hbTimer' = [hbTimer EXCEPT ![w] = 0]
    /\ data' = [data EXCEPT ![w] = NoData]
    /\ result' = [result EXCEPT ![w] = NoResult]
    /\ steps' = [steps EXCEPT ![w] = <<>>]
    /\ upAge' = [upAge EXCEPT ![w] = 0]
    /\ lost' = [lost EXCEPT ![w] = IF holding THEN @ + 1 ELSE @]

\* ------------------------------------------------------------- producer
\* send_task.py: r.rpush("image_tasks", json.dumps(task)); any client of the
\* broker can push any text.
Push(p) ==
    /\ brokerUp
    /\ pushed < MaxPush
    /\ queue' = RedisRpush(queue, p)
    /\ pushed' = pushed + 1
    /\ qseq' = RedisRpush(qseq, pushed + 1)
    /\ Disturb
    /\ UNCHANGED <<uploadVars, polled, batchVars, recVars, colVars, brokerUp, kv, pc, hb, hbTimer, data, result, taken, lost,
                   steps, busyAge, aliveAge, upAge>>

\* --------------------------------------------------------------- worker
\* python worker_main.py: the module starts the heartbeat thread (56-57) and
\* enters the task loop (62).
Start(w) ==
    /\ pc[w] \in {"off", "dead"}
    /\ pc' = [pc EXCEPT ![w] = "blpop"]
    /\ hb' = [hb EXCEPT ![w] = "run"]
    /\ Disturb
    /\ UNCHANGED <<uploadVars, polled, batchVars, qseq, recVars, colVars, brokerUp, queue, kv, hbTimer, data, result, pushed, taken,
                   lost, steps, busyAge, aliveAge, upAge>>

\* The process is terminated from outside (the only way a worker stops).
\* (variant: a terminated worker hands the task it holds back to the list)
KillRequeue(w) ==
    /\ Running(w)
    /\ Die(w, "off", FALSE)
    /\ queue' = IF pc[w] \in InFlight THEN RedisRpush(queue, data[w]) ELSE queue
    /\ qseq' = IF pc[w] \in InFlight THEN RedisRpush(qseq, pushed) ELSE qseq
    /\ Disturb
    /\ UNCHANGED <<uploadVars, polled, batchVars, recVars, colVars, brokerUp, kv, pushed, taken, busyAge, aliveAge>>
Kill(w) ==
    /\ Running(w)
    /\ Die(w, "off", pc[w] \in InFlight)
    /\ Disturb
    /\ UNCHANGED <<uploadVars, polled, batchVars, qseq, recVars, colVars, brokerUp, queue, kv, pushed, taken, busyAge, aliveAge>>

\* heartbeat_loop, one round: r.set(key, json, ex=10); time.sleep(5).
\* r.set raising (broker unreachable) is caught nowhere: the thread ends.
\* (variant: no thread of its own, the publication is made by the task
\* loop between two tasks and skipped while a task is in hand)
HeartbeatRoundBetweenTasks(w) ==
    /\ hb[w] = "run"
    /\ hbTimer[w] <= 0
    /\ IF brokerUp
       THEN /\ kv' = IF pc[w] = "blpop"
                     THEN RedisSetEx(kv, Key(w, "alive"), "alive-json", HEARTBEAT_TTL)
                     ELSE kv
            /\ hbTimer' = [hbTimer EXCEPT ![w] = HEARTBEAT_SLEEP]
            /\ aliveAge' = [aliveAge EXCEPT ![w] = IF pc[w] = "blpop" THEN 0 ELSE @]
            /\ hb' = hb
       ELSE /\ hb' = [hb EXCEPT ![w] = "dead"]
            /\ hbTimer' = [hbTimer EXCEPT ![w] = 0]
            /\ UNCHANGED <<kv, aliveAge>>
    /\ Disturb
    /\ UNCHANGED <<uploadVars, polled, batchVars, qseq, recVars, colVars, brokerUp, queue, pc, data, result, pushed, taken, lost,
                   steps, busyAge, upAge>>
HeartbeatRound(w) ==
    /\ hb[w] = "run"
    /\ hbTimer[w] <= 0
    /\ IF brokerUp
       THEN /\ kv' = RedisSetEx(kv, Key(w, "alive"), "alive-json", HEARTBEAT_TTL)
            /\ hbTimer' = [hbTimer EXCEPT ![w] = HEARTBEAT_SLEEP]
            /\ aliveAge' = [aliveAge EXCEPT ![w] = 0]
            /\ hb' = hb
       ELSE /\ hb' = [hb EXCEPT ![w] = "dead"]
            /\ hbTimer' = [hbTimer EXCEPT ![w] = 0]
            /\ UNCHANGED <<kv, aliveAge>>
    /\ Disturb
    /\ UNCHANGED <<uploadVars, polled, batchVars, qseq, recVars, colVars, brokerUp, queue, pc, data, result, pushed, taken, lost,
                   steps, busyAge, upAge>>

\* Lines 63-67: task = r.blpop("image_tasks", timeout=0); json.loads(data).
\* blpop returns only with an element (it blocks on an empty list); it and
\* json.loads stand outside the try block.
\* (variant: a pop with a timeout; on an empty list it returns None and
\* the unpacking "_, data = task" raises)
BlpopWithTimeout(w) ==
    /\ pc[w] = "blpop"
    /\ brokerUp
    /\ IF queue = <<>>
       THEN /\ Die(w, "dead", FALSE)
            /\ UNCHANGED <<queue, qseq, taken>>
       ELSE /\ queue' = RedisLpop(queue)
            /\ qseq' = RedisLpop(qseq)
            /\ taken' = [taken EXCEPT ![w] = @ + 1]
            /\ IF JsonLoads(Head(queue)).ok
               THEN /\ pc' = [pc EXCEPT ![w] = "set_busy1"]
                    /\ data' = [data EXCEPT ![w] = Head(queue)]
                    /\ result' = [result EXCEPT ![w] = NoResult]
                    /\ steps' = [steps EXCEPT ![w] = <<>>]
                    /\ UNCHANGED <<hb, hbTimer, lost, upAge>>
               ELSE Die(w, "dead", TRUE)
    /\ Disturb
    /\ UNCHANGED <<uploadVars, polled, batchVars, recVars, colVars, brokerUp, kv, pushed, busyAge, aliveAge>>
Blpop(w) ==
    /\ pc[w] = "blpop"
    /\ brokerUp
    /\ queue # <<>>
    /\ queue' = RedisLpop(queue)
    /\ qseq' = RedisLpop(qseq)
    /\ taken' = [taken EXCEPT ![w] = @ + 1]
    /\ IF JsonLoads(Head(queue)).ok
       THEN /\ pc' = [pc EXCEPT ![w] = "set_busy1"]
            /\ data' = [data EXCEPT ![w] = Head(queue)]
            /\ result' = [result EXCEPT ![w] = NoResult]
            /\ steps' = [steps EXCEPT ![w] = <<>>]
            /\ UNCHANGED <<hb, hbTimer, lost, upAge>>
       ELSE Die(w, "dead", TRUE)
    /\ Disturb
    /\ UNCHANGED <<uploadVars, polled, batchVars, recVars, colVars, brokerUp, kv, pushed, busyAge, aliveAge>>

\* set_busy(val): r.set("worker:<id>:busy", int(val), ex=15), outside the try
SetBusy(w, val, at, next) ==
    /\ pc[w] = at
    /\ brokerUp
    /\ kv' = RedisSetEx(kv, Key(w, "busy"), IntToStr(val), BUSY_TTL)
    /\ pc' = [pc EXCEPT ![w] = next]
    /\ steps' = [steps EXCEPT ![w] = Append(@, IF val = 1 THEN "busy1" ELSE "busy0")]
    /\ busyAge' = [busyAge EXCEPT ![w] = 0]
    \* task_data and result are dead once the iteration ends
    /\ data' = [data EXCEPT ![w] = IF val = 0 THEN NoData ELSE @]
    /\ result' = [result EXCEPT ![w] = IF val = 0 THEN NoResult ELSE @]
    /\ Disturb
    /\ UNCHANGED <<uploadVars, polled, batchVars, qseq, recVars, colVars, brokerUp, queue, hb, hbTimer, pushed, taken, lost, aliveAge, upAge>>

SetBusy1(w) == SetBusy(w, 1, "set_busy1", "process")
\* (variant: the closing set_busy(0) left out)
SetBusy0Forgotten(w) ==
    /\ pc[w] = "set_busy0"
    /\ pc' = [pc EXCEPT ![w] = "blpop"]
    /\ data' = [data EXCEPT ![w] = NoData]
    /\ result' = [result EXCEPT ![w] = NoResult]
    /\ Disturb
    /\ UNCHANGED <<uploadVars, polled, batchVars, qseq, recVars, colVars, brokerUp, queue, kv, hb, hbTimer, pushed, taken, lost, steps,
                   busyAge, aliveAge, upAge>>
SetBusy0(w) == SetBusy(w, 0, "set_busy0", "blpop")

\* Lines 71-74: the attempt.  task_data["image_path"] / ["filters"] raise
\* KeyError on a dict without them; the except clause takes that.
Attempt(w) ==
    /\ pc[w] = "process"
    /\ LET task_data == JsonLoads(data[w]).value IN
       IF {"image_path", "filters"} \subseteq DOMAIN task_data
       THEN \E ioOk \in BOOLEAN :
              /\ result' = [result EXCEPT ![w] =
                    ProcessSingleImage(task_data.image_path, task_data.filters, ioOk)]
              /\ pc' = [pc EXCEPT ![w] = "count"]
       ELSE /\ result' = [result EXCEPT ![w] = Raised]
            /\ pc' = [pc EXCEPT ![w] = "except"]
    /\ steps' = [steps EXCEPT ![w] = Append(@, result'[w].status)]
    /\ Disturb
    /\ UNCHANGED <<uploadVars, polled, batchVars, qseq, recVars, colVars, brokerUp, queue, kv, hb, hbTimer, data, pushed, taken, lost,
                   busyAge, aliveAge, upAge>>

\* incr_success / incr_fail: r.incr("worker:<id>:success" | ":fail")
Incr(w, field) ==
    /\ kv' = RedisIncr(kv, Key(w, field))
    /\ steps' = [steps EXCEPT ![w] = Append(@, "count")]

\* Lines 75-78, inside the try: a redis error goes to the except clause.
Count(w) ==
    /\ pc[w] = "count"
    /\ IF brokerUp
       THEN /\ Incr(w, IF result[w].status = "success" THEN "success" ELSE "fail")
            /\ pc' = [pc EXCEPT ![w] = "set_busy0"]
       ELSE /\ pc' = [pc EXCEPT ![w] = "except"]
            /\ UNCHANGED <<kv, steps>>
    /\ Disturb
    /\ UNCHANGED <<uploadVars, polled, batchVars, qseq, recVars, colVars, brokerUp, queue, hb, hbTimer, data, result, pushed, taken,
                   lost, busyAge, aliveAge, upAge>>

\* Lines 79-81: except Exception: incr_fail()
Except(w) ==
    /\ pc[w] = "except"
    /\ brokerUp
    /\ Incr(w, "fail")
    /\ pc' = [pc EXCEPT ![w] = "set_busy0"]
    /\ Disturb
    /\ UNCHANGED <<uploadVars, polled, batchVars, qseq, recVars, colVars, brokerUp, queue, hb, hbTimer, data, result, pushed, taken,
                   lost, busyAge, aliveAge, upAge>>

\* While the broker is unreachable a redis command raises and has no effect.
\* A redis call outside the try block (blpop, set_busy, the incr_fail of the
\* except clause) raises while the broker is unreachable: the process ends.
BrokerError(w) ==
    /\ ~brokerUp
    /\ pc[w] \in {"blpop", "set_busy1", "except", "set_busy0"}
    /\ Die(w, "dead", pc[w] \in InFlight)
    /\ Disturb
    /\ UNCHANGED <<uploadVars, polled, batchVars, qseq, recVars, colVars, brokerUp, queue, kv, pushed, taken, busyAge, aliveAge>>

\* ------------------------------------------------------------ environment
BrokerDown ==
    /\ brokerUp
    /\ brokerUp' = FALSE
    /\ Disturb
    /\ UNCHANGED <<uploadVars, polled, batchVars, qseq, recVars, colVars, queue, kv, pc, hb, hbTimer, data, result, pushed, taken,
                   lost, steps, busyAge, aliveAge, upAge>>

BrokerBack ==
    /\ ~brokerUp
    /\ brokerUp' = TRUE
    /\ Disturb
    /\ UNCHANGED <<uploadVars, polled, batchVars, qseq, recVars, colVars, queue, kv, pc, hb, hbTimer, data, result, pushed, taken,
                   lost, steps, busyAge, aliveAge, upAge>>

\* One second passes: redis expires the cells, the sleeping heartbeat thread
\* gets a second nearer to waking.  Timing assumptions: a thread whose
\* time.sleep(5) is over runs within MaxJitter seconds, and the redis calls
\* of the task loop answer (or raise) within the second; only the blocking
\* pop and the processing of an image last.
Instant == {"set_busy1", "count", "except", "set_busy0"}
Tick ==
    /\ \A w \in Workers : hb[w] = "run" => hbTimer[w] > -MaxJitter
    /\ \A w \in Workers : pc[w] \notin Instant
    /\ kv' = RedisAge(kv)
    /\ hbTimer' = [w \in Workers |->
                     IF hb[w] = "run" THEN hbTimer[w] - 1 ELSE hbTimer[w]]
    /\ busyAge' = [w \in Workers |-> Min(busyAge[w] + 1, BUSY_TTL + 1)]
    /\ aliveAge' = [w \in Workers |-> Min(aliveAge[w] + 1, HEARTBEAT_TTL + 1)]
    /\ upAge' = [w \in Workers |->
                   IF Running(w) THEN Min(upAge[w] + 1, HEARTBEAT_SLEEP) ELSE upAge[w]]
    /\ Disturb
    /\ UNCHANGED <<uploadVars, polled, batchVars, qseq, recVars, colVars, brokerUp, queue, pc, hb, data, result, pushed, taken, lost, steps>>

\* ------------------------------------------------------------ collector
\* SimpleMetricsCollector.collect_metrics, one action per request it sends.

\* Lines 19-27: GET <api>/cluster/status/.  An answer that is no JSON
\* (cluster_status raised on an unreachable broker) makes resp.json() raise
\* and gives worker_ids = []; so does an API that does not answer, which is
\* not followed separately.
CollectStatus ==
    /\ col = "idle"
    /\ LET r == ClusterStatusResponse(brokerUp, kv)
           worker_ids == IF r.status = 200 THEN r.active_workers ELSE {} IN
         /\ resp' = r
         /\ colIds' = worker_ids
         /\ acc' = [NoAcc EXCEPT !.active_workers = Cardinality(worker_ids)]
         /\ col' = IF worker_ids = {} THEN "llen" ELSE "busy"
    /\ colWid' = "none"
    /\ calm' = IF calm = -1 THEN 0 ELSE calm
    /\ UNCHANGED <<uploadVars, polled, batchVars, qseq, recVars, brokerUp, queue, kv, pc, hb, hbTimer, data, result, pushed,
                   taken, lost, steps, busyAge, aliveAge, upAge, snap>>

\* what GET leaves of the store: nothing is written
\* (variant: a read that consumes the key, GETDEL)
RedisGetTouch(store, k) == [store EXCEPT ![k] = NoKey]
RedisAfterGet(store, k) == store

\* Lines 33-38: the next wid; busy = int(r.get("worker:<wid>:busy") or 0),
\* a redis error is passed over.
CollectBusy ==
    /\ col = "busy"
    /\ \E wid \in colIds :
         /\ colWid' = wid
         /\ colIds' = colIds \ {wid}
         /\ acc' = IF brokerUp
                   THEN [acc EXCEPT !.busy_workers =
                            @ + IntOr0(RedisGet(kv, Key(wid, "busy")))]
                   ELSE acc
         /\ kv' = IF brokerUp THEN RedisAfterGet(kv, Key(wid, "busy")) ELSE kv
    /\ col' = "success"
    /\ UNCHANGED <<uploadVars, polled, batchVars, qseq, recVars, brokerUp, queue, pc, hb, hbTimer, data, result, pushed,
                   taken, lost, steps, busyAge, aliveAge, upAge, snap, calm,
                   resp>>

\* where the loop goes after the second try block of a round
AfterRound == IF colIds = {} THEN "llen" ELSE "busy"

\* Line 40: total_success += int(r.get("worker:<wid>:success") or 0); a
\* redis error leaves the try block, line 41 is skipped.
CollectSuccess ==
    /\ col = "success"
    /\ IF brokerUp
       THEN /\ acc' = [acc EXCEPT !.total_success =
                          @ + IntOr0(RedisGet(kv, Key(colWid, "success")))]
            /\ kv' = RedisAfterGet(kv, Key(colWid, "success"))
            /\ col' = "fail"
       ELSE /\ col' = AfterRound
            /\ UNCHANGED <<acc, kv>>
    /\ UNCHANGED <<uploadVars, polled, batchVars, qseq, recVars, brokerUp, queue, pc, hb, hbTimer, data, result, pushed,
                   taken, lost, steps, busyAge, aliveAge, upAge, colIds,
                   colWid, snap, calm, resp>>

\* Line 41: total_fail += int(r.get("worker:<wid>:fail") or 0)
CollectFail ==
    /\ col = "fail"
    /\ acc' = IF brokerUp
              THEN [acc EXCEPT !.total_fail =
                       @ + IntOr0(RedisGet(kv, Key(colWid, "fail")))]
              ELSE acc
    /\ kv' = IF brokerUp THEN RedisAfterGet(kv, Key(colWid, "fail")) ELSE kv
    /\ col' = AfterRound
    /\ UNCHANGED <<uploadVars, polled, batchVars, qseq, recVars, brokerUp, queue, pc, hb, hbTimer, data, result, pushed,
                   taken, lost, steps, busyAge, aliveAge, upAge, colIds,
                   colWid, snap, calm, resp>>

\* Lines 45-64: queue_length = r.llen("image_tasks"), -1 on a redis error;
\* the derived metrics; return.
CollectLlen ==
    /\ col = "llen"
    /\ snap' = Snapshot(acc, IF brokerUp THEN Len(queue) ELSE -1)
    /\ col' = "idle"
    /\ calm' = IF calm = -1 THEN 0 ELSE Min(calm + 1, 2)
    /\ polled' = IF polled = NoDashboard THEN polled
                 ELSE <<acc.total_success, acc.total_fail>>
    /\ UNCHANGED <<uploadVars, batchVars, qseq, recVars, brokerUp, queue, kv, pc, hb, hbTimer, data, result, pushed,
                   taken, lost, steps, busyAge, aliveAge, upAge, colIds,
                   colWid, acc, resp>>

CollectorStep ==
    \/ CollectStatus
    \/ CollectBusy
    \/ CollectSuccess
    \/ CollectFail
    \/ CollectLlen

\* ---------------------------------------------------------- specifications
\* the main thread of worker w, its start and its termination
TaskStep(w) ==
    \/ Start(w)
    \/ Kill(w)
    \/ Blpop(w)
    \/ SetBusy1(w)
    \/ Attempt(w)
    \/ Count(w)
    \/ Except(w)
    \/ SetBusy0(w)
    \/ BrokerError(w)

\* Task distribution: two workers racing for any payloads, broker outages,
\* terminations and restarts.  No clock: the heartbeat thread and the
\* expiry of cells are followed in SpecTimed.
Next ==
    \/ \E p \in Payloads : Push(p)
    \/ \E w \in Workers : TaskStep(w)
    \/ BrokerDown
    \/ BrokerBack

Spec == Init /\ [][Next]_vars

\* One worker followed second by second: both threads, the clock, the
\* expiry of its cells.
NextTimed ==
    \/ Push(SendTask)
    \/ \E w \in TimedWorkers : TaskStep(w) \/ HeartbeatRound(w)
    \/ BrokerDown
    \/ BrokerBack
    \/ Tick

SpecTimed == Init /\ [][NextTimed]_vars

\* The collector polling while two workers publish, take and count tasks;
\* each worker is started once.
NextCollect ==
    \/ pushed < MaxPolledPush /\ Push(SendTask)
    \/ \E w \in Workers :
          \/ pc[w] = "off" /\ Start(w)
          \/ HeartbeatRound(w)
          \/ Blpop(w)
          \/ SetBusy1(w)
          \/ Attempt(w)
          \/ Count(w)
          \/ Except(w)
          \/ SetBusy0(w)
          \/ BrokerError(w)
    \/ BrokerDown
    \/ BrokerBack
    \/ CollectorStep

SpecCollect == Init /\ [][NextCollect]_vars


\* One iteration step of the task loop of worker w (lines 62-82)
LoopStep(w) ==
    \/ Blpop(w)
    \/ SetBusy1(w)
    \/ Attempt(w)
    \/ Count(w)
    \/ Except(w)
    \/ SetBusy0(w)

\* Progress of the task loops.  The broker stays reachable and every
\* payload is the JSON of a dict; payloads are pushed while the worker
\* Steady runs, which is never terminated; the other worker is started,
\* terminated and restarted at any time.  A running task loop whose next
\* step is possible takes it eventually (the scheduler runs the thread,
\* the processing of an image ends).
Steady == "w2"
LivePayloads == {SendTask, BogusTask, NoFiltersTask}
NextLive ==
    \/ \E p \in LivePayloads : Running(Steady) /\ Push(p)
    \/ \E w \in Workers : Start(w)
    \/ \E w \in Workers \ {Steady} : Kill(w)
    \/ \E w \in Workers : LoopStep(w)

SpecLive ==
    /\ Init
    /\ [][NextLive]_vars
    /\ \A w \in Workers : WF_vars(LoopStep(w))

\* ------------------------------------------------------------- batches
\* The pool runs the task of image i to its end: process_single_image in a
\* thread (it catches every exception itself), worker_process_mp in a
\* worker process.
RunTask(i) ==
    /\ bMode # "none"
    /\ i \in 1..bPaths
    /\ fut[i] = Pending
    /\ \E ioOk \in BOOLEAN :
         fut' = [fut EXCEPT ![i] =
                    Done(IF bMode = "threads"
                         THEN ProcessSingleImage(i, bFilters, ioOk)
                         ELSE WorkerProcessMp(i, bFilters, ioOk))]
    /\ UNCHANGED <<uploadVars, polled, brokerUp, queue, kv, pc, hb, hbTimer, data, result, pushed,
                   taken, lost, steps, busyAge, aliveAge, upAge, colVars,
                   snap, calm, resp, recVars, qseq,
                   bMode, bPaths, bFilters, collected, results, returned>>

\* A worker process of the process pool ends abruptly (killed, out of
\* memory): the executor marks the pool broken and every future not yet
\* finished gets BrokenProcessPool.
BreakPool ==
    /\ bMode = "processes"
    /\ \E i \in 1..bPaths : fut[i] = Pending
    /\ fut' = [i \in 1..bPaths |-> IF fut[i] = Pending THEN FutureRaised ELSE fut[i]]
    /\ UNCHANGED <<uploadVars, polled, brokerUp, queue, kv, pc, hb, hbTimer, data, result, pushed,
                   taken, lost, steps, busyAge, aliveAge, upAge, colVars,
                   snap, calm, resp, recVars, qseq,
                   bMode, bPaths, bFilters, collected, results, returned>>

\* as_completed yields a finished future: one round of the result loop
CollectFuture(i) ==
    /\ bMode # "none"
    /\ i \in 1..bPaths
    /\ i \notin collected
    /\ fut[i] # Pending
    /\ collected' = collected \cup {i}
    /\ results' = IF bMode = "threads"
                  THEN ThreadsCollect(results, i, fut[i])
                  ELSE ProcessesCollect(results, i, fut[i])
    /\ UNCHANGED <<uploadVars, polled, brokerUp, queue, kv, pc, hb, hbTimer, data, result, pushed,
                   taken, lost, steps, busyAge, aliveAge, upAge, colVars,
                   snap, calm, resp, recVars, qseq,
                   bMode, bPaths, bFilters, fut, returned>>

\* every future was yielded: the with block ends, results is returned
ReturnBatch ==
    /\ bMode # "none"
    /\ ~returned
    /\ collected = 1..bPaths
    /\ returned' = TRUE
    /\ UNCHANGED <<uploadVars, polled, brokerUp, queue, kv, pc, hb, hbTimer, data, result, pushed,
                   taken, lost, steps, busyAge, aliveAge, upAge, colVars,
                   snap, calm, resp, recVars, qseq,
                   bMode, bPaths, bFilters, fut, collected, results>>

\* A call of process_batch_threading or process_batch_multiprocessing with
\* up to MaxImages images and a filter list of FilterLists, one task
\* submitted per image.
InitBatch ==
    /\ InitFleet
    /\ NoUpload
    /\ polled = NoDashboard
    /\ recArgs = NoArgs
    /\ rec = NoRecommendation
    /\ shown = NoAdvice
    /\ \E mode \in {"threads", "processes"}, n \in 0..MaxImages,
          fl \in FilterLists :
         /\ bMode = mode
         /\ bPaths = n
         /\ bFilters = fl
         /\ fut = [i \in 1..n |-> Pending]
    /\ collected = {}
    /\ results = <<>>
    /\ returned = FALSE

NextBatch ==
    \/ \E i \in 1..MaxImages : RunTask(i)
    \/ BreakPool
    \/ \E i \in 1..MaxImages : CollectFuture(i)
    \/ ReturnBatch

SpecBatch == InitBatch /\ [][NextBatch]_vars

\* ------------------------------------------------------------ dashboard
\* SimpleDashboard.run: while True: metrics = collect_metrics(); ...;
\* time.sleep(3).  One worker followed second by second with a reachable
\* broker, terminated and restarted at any time, while the dashboard
\* calls collect_metrics again and again; the time between two calls is
\* not followed (any number of seconds), the reads of one call are made
\* within the second.  The except clause of the task loop is not reached
\* here (the payload has both keys and the broker answers).
InitDashboard ==
    /\ InitFleet
    /\ NoBatch
    /\ NoUpload
    /\ recArgs = NoArgs
    /\ rec = NoRecommendation
    /\ shown = NoAdvice
    /\ polled = NoPoll

NextDashboard ==
    \/ pushed < MaxPolledPush /\ Push(SendTask)
    \/ \E w \in TimedWorkers :
          \/ Start(w)
          \/ Kill(w)
          \/ HeartbeatRound(w)
          \/ Blpop(w)
          \/ SetBusy1(w)
          \/ Attempt(w)
          \/ Count(w)
          \/ SetBusy0(w)
    \/ col = "idle" /\ Tick
    \/ CollectorStep

SpecDashboard == InitDashboard /\ [][NextDashboard]_vars

\* --------------------------------------------------------------- uploads
\* process_image_view lines 444-461: no image gives 400; otherwise
\* open(temp_path, "wb") creates the file or cuts it to length 0.  (The
\* filters of the request and the result dict are not followed here.)
ViewOpen(r) ==
    /\ upPc[r] = "start"
    /\ IF upChunks[r] = 0
       THEN /\ upPc' = [upPc EXCEPT ![r] = "400"]
            /\ UNCHANGED upFiles
       ELSE /\ upPc' = [upPc EXCEPT ![r] = "write"]
            /\ upFiles' = [upFiles EXCEPT ![TempPath(r, upName[r])] = <<>>]
    /\ UNCHANGED <<brokerUp, queue, kv, pc, hb, hbTimer, data, result, pushed,
                   taken, lost, steps, busyAge, aliveAge, upAge, colVars,
                   snap, calm, resp, recVars, qseq, batchVars, polled,
                   upName, upChunks, upPos, upSeen>>

\* lines 462-463: for chunk in image_file.chunks(): f.write(chunk); after
\* the last chunk the with block closes the file
ViewWrite(r) ==
    /\ upPc[r] = "write"
    /\ upFiles' = [upFiles EXCEPT ![TempPath(r, upName[r])] =
                      FileWrite(@, upPos[r], <<r, upPos[r] + 1>>)]
    /\ upPos' = [upPos EXCEPT ![r] = @ + 1]
    /\ upPc' = [upPc EXCEPT ![r] =
                   IF upPos[r] + 1 = upChunks[r] THEN "process" ELSE "write"]
    /\ UNCHANGED <<brokerUp, queue, kv, pc, hb, hbTimer, data, result, pushed,
                   taken, lost, steps, busyAge, aliveAge, upAge, colVars,
                   snap, calm, resp, recVars, qseq, batchVars, polled,
                   upName, upChunks, upSeen>>

\* lines 465-468: process_single_image(temp_path, filters) opens the file
\* of that path and reads what it holds then; the response is sent
ViewProcess(r) ==
    /\ upPc[r] = "process"
    /\ upSeen' = [upSeen EXCEPT ![r] = upFiles[TempPath(r, upName[r])]]
    /\ upPc' = [upPc EXCEPT ![r] = "200"]
    /\ UNCHANGED <<brokerUp, queue, kv, pc, hb, hbTimer, data, result, pushed,
                   taken, lost, steps, busyAge, aliveAge, upAge, colVars,
                   snap, calm, resp, recVars, qseq, batchVars, polled,
                   upName, upChunks, upPos, upFiles>>

\* Requests to process_image_view arriving together (burst_stress.py sends
\* them from one thread each), with uploads of any of the names and of up
\* to MaxChunks chunks.
InitUpload ==
    /\ InitFleet
    /\ NoBatch
    /\ recArgs = NoArgs
    /\ rec = NoRecommendation
    /\ shown = NoAdvice
    /\ polled = NoDashboard
    /\ upName \in [Requests -> FileNames]
    /\ upChunks \in [Requests -> 0..MaxChunks]
    /\ upPc = [r \in Requests |-> "start"]
    /\ upPos = [r \in Requests |-> 0]
    /\ upFiles = [n \in FileNames |-> <<>>]
    /\ upSeen = [r \in Requests |-> <<>>]

NextUpload ==
    \/ \E r \in Requests : ViewOpen(r)
    \/ \E r \in Requests : ViewWrite(r)
    \/ \E r \in Requests : ViewProcess(r)

SpecUpload == InitUpload /\ [][NextUpload]_vars

\* The engine and the CLI advice on every snapshot of a fleet of up to
\* MaxActive listed workers that has counted MaxCount tasks or none, for
\* every worker count up to MaxCurrent.
InitRecommend ==
    /\ InitFleet
    /\ NoBatch
    /\ NoUpload
    /\ polled = NoDashboard
    /\ \E a \in 0..MaxActive, q \in -1..MaxQueueLen, n \in 0..MaxCurrent :
         \E b \in 0..a, ok \in 0..MaxCount :
            \/ recArgs = RecInput(a, b, ok, MaxCount - ok, q, n)
            \/ ok = 0 /\ recArgs = RecInput(a, b, 0, 0, q, n)
    /\ rec = NoRecommendation
    /\ shown = NoAdvice

\* dashboard.py line 94: recommendation = analyze_metrics(metrics)
Analyze ==
    /\ rec = NoRecommendation
    /\ recArgs # NoArgs
    /\ rec' = Recommend(recArgs.snapshot, recArgs.current_workers)
    /\ UNCHANGED <<uploadVars, polled, batchVars, qseq, brokerUp, queue, kv, pc, hb, hbTimer, data, result, pushed,
                   taken, lost, steps, busyAge, aliveAge, upAge, colVars,
                   snap, calm, resp, recArgs, shown>>

\* cli.py line 47: self._display_recommendation(worker_count)
ShowMetrics ==
    /\ shown = NoAdvice
    /\ recArgs # NoArgs
    /\ shown' = DisplayRecommendation(recArgs.current_workers)
    /\ UNCHANGED <<uploadVars, polled, batchVars, qseq, brokerUp, queue, kv, pc, hb, hbTimer, data, result, pushed,
                   taken, lost, steps, busyAge, aliveAge, upAge, colVars,
                   snap, calm, resp, recArgs, rec>>

NextRecommend ==
    \/ Analyze
    \/ ShowMetrics

SpecRecommend == InitRecommend /\ [][NextRecommend]_vars

\* ================================================================ claims
RECURSIVE SumOver(_, _)
SumOver(f, S) ==
    IF S = {} THEN 0
    ELSE LET x == CHOOSE y \in S : TRUE IN f[x] + SumOver(f, S \ {x})

\* the outcome counters as a reader of the broker sees them
Success(w) == IntOr0(RedisGet(kv, Key(w, "success")))
Fail(w) == IntOr0(RedisGet(kv, Key(w, "fail")))
Counted == SumOver([w \in Workers |-> Success(w) + Fail(w)], Workers)
BusyRead(w) == IntOr0(RedisGet(kv, Key(w, "busy")))
Idle(w) == pc[w] \in {"blpop", "off", "dead"}

\* C1: every push adds one element and every pop removes one, handed to one
\* worker; once the list is drained and every worker idle, and no worker
\* died holding a task, the success and fail counters of all workers add up
\* to the number of payloads pushed.
C1_ExactlyOnce ==
    /\ SumOver(taken, Workers) + Len(queue) = pushed
    /\ (queue = <<>> /\ (\A w \in Workers : Idle(w) /\ lost[w] = 0))
          => Counted = pushed
C1_Witness ==
    /\ queue = <<>> /\ pushed = 3
    /\ \A w \in Workers : pc[w] = "blpop" /\ lost[w] = 0 /\ taken[w] >= 1
    /\ Counted = 3

\* C2: while the broker is reachable no step ends a worker's main thread by
\* an exception, whatever payload it pops or processes.
C2_LoopSurvivesEveryPayload ==
    [][\A w \in Workers : (brokerUp /\ Running(w)) => pc'[w] # "dead"]_vars

\* C3: for each worker between two tasks, success + fail is the number of
\* tasks it took and processed to the end; with no task lost by a death of
\* the process that is every task it popped.
C3_CountersAddUp ==
    \A w \in Workers :
        /\ Success(w) + Fail(w) + lost[w] + (IF pc[w] \in InFlight THEN 1 ELSE 0)
              = taken[w]
        /\ (pc[w] = "blpop" /\ lost[w] = 0) => Success(w) + Fail(w) = taken[w]
C3_Witness ==
    \E w \in Workers :
        /\ pc[w] = "blpop" /\ lost[w] = 0 /\ taken[w] = 3
        /\ Success(w) = 1 /\ Fail(w) = 2

\* C4: a task naming an unregistered filter gets an error result, and the
\* worker that ran it leaves the attempt with its fail counter one higher
\* and its success counter as it was; no other step on that task counts.
HasUnregistered(d) ==
    /\ d.kind = "json"
    /\ "filters" \in DOMAIN d.obj
    /\ \E i \in 1..Len(d.obj.filters) : d.obj.filters[i] \notin AVAILABLE_FILTERS
C4_UnregisteredFilterCountsAsFail ==
    [][\A w \in Workers :
         HasUnregistered(data[w]) =>
            IF pc[w] \in {"count", "except"} /\ pc'[w] = "set_busy0"
            THEN /\ result[w].status = "error"
                 /\ Fail(w)' = Fail(w) + 1
                 /\ Success(w)' = Success(w)
            ELSE /\ Fail(w)' = Fail(w)
                 /\ Success(w)' = Success(w)
                 /\ pc[w] = "count" => result[w].status = "error"]_vars
C4_Witness ==
    \E w \in Workers :
        /\ HasUnregistered(data[w]) /\ pc[w] = "set_busy0"
        /\ result[w].status = "error" /\ Fail(w) = 1 /\ Success(w) = 0

\* C5: the heartbeat thread of a running worker never ends: a publication
\* that fails is survived.
C5_HeartbeatSurvives ==
    \A w \in Workers : Running(w) => hb[w] = "run"

\* C6: for each task the worker writes busy=1, attempts, counts once and
\* writes busy=0, in this order, whatever the attempt gave; it is back at
\* the pop only with all four done and the busy cell reading 0.
Outcomes == {"success", "error", "raised"}
FullSteps == {<<"busy1", o, "count", "busy0">> : o \in Outcomes}
IsPrefix(s, t) == Len(s) <= Len(t) /\ \A i \in 1..Len(s) : s[i] = t[i]
C6_BusyBracket ==
    \A w \in Workers :
        /\ \E t \in FullSteps : IsPrefix(steps[w], t)
        /\ (pc[w] = "blpop" /\ steps[w] # <<>>)
              => (steps[w] \in FullSteps /\ RedisGet(kv, Key(w, "busy")) = "0")
C6_Witness ==
    \E w \in Workers :
        /\ pc[w] = "blpop"
        /\ steps[w] = <<"busy1", "raised", "count", "busy0">>
        /\ RedisGet(kv, Key(w, "busy")) = "0"

\* C7: 15 s after the last write of a busy cell, a read finds it absent,
\* with no write or delete by anyone; until then the cell has exactly the
\* seconds left that remain of the 15.
C7_BusyFlagSelfHeals ==
    \A w \in Workers :
        /\ busyAge[w] >= BUSY_TTL => RedisGet(kv, Key(w, "busy")) = "nil"
        /\ busyAge[w] < BUSY_TTL => kv[Key(w, "busy")].ttl = BUSY_TTL - busyAge[w]
C7_Witness ==
    \E w \in Workers :
        /\ pc[w] = "off" /\ taken[w] = 1 /\ lost[w] = 1
        /\ busyAge[w] = BUSY_TTL
        /\ BusyRead(w) = 0

\* C8: a worker is listed by cluster_status iff its alive cell has not
\* expired, and 10 s after its last publication it is not listed.
C8_LivenessExpiry ==
    \A w \in Workers :
        /\ w \in ClusterStatus(kv) <=> RedisGet(kv, Key(w, "alive")) # "nil"
        /\ aliveAge[w] >= HEARTBEAT_TTL => w \notin ClusterStatus(kv)
        /\ aliveAge[w] < HEARTBEAT_TTL => w \in ClusterStatus(kv)
C8_Witness ==
    \E w \in Workers :
        /\ ~Running(w) /\ aliveAge[w] = HEARTBEAT_TTL
        /\ w \notin ClusterStatus(kv)

\* C9: a running worker whose publications reached the broker is listed
\* from one heartbeat interval after its start on, without a gap: its last
\* publication is never older than the sleep plus the scheduling delay, and
\* its alive cell was written with 10 s to live.
C9_ContinuouslyListed ==
    \A w \in Workers :
        (Running(w) /\ hb[w] = "run" /\ upAge[w] >= HEARTBEAT_SLEEP) =>
            /\ w \in ClusterStatus(kv)
            /\ aliveAge[w] <= HEARTBEAT_SLEEP + MaxJitter
            /\ kv[Key(w, "alive")].ttl = HEARTBEAT_TTL - aliveAge[w]
C9_Witness ==
    \E w \in Workers :
        /\ Running(w) /\ hb[w] = "run" /\ upAge[w] >= HEARTBEAT_SLEEP
        /\ aliveAge[w] = HEARTBEAT_SLEEP + 1
        /\ taken[w] >= 1
        /\ w \in ClusterStatus(kv)

\* C10: no step of collect_metrics changes the list or any cell (value or
\* seconds left), and a call made right after another, with nothing but the
\* collector acting from the start of the first to the end of the second,
\* returns the same dict.
C10_CollectReadOnly ==
    [][/\ col' # col => (queue' = queue /\ kv' = kv /\ brokerUp' = brokerUp)
       /\ (col = "llen" /\ col' = "idle" /\ calm' = 2) => snap' = snap]_vars
C10_Witness ==
    /\ col = "idle" /\ calm = 2
    /\ snap.active_workers = 2 /\ snap.busy_workers = 1
    /\ snap.queue_length = 1
    /\ \E w \in Workers : Success(w) + Fail(w) = 0 /\ pc[w] = "process"

\* the worker ids with an alive cell in the store now, and those of them
\* whose busy cell reads 1
Live == {w \in Workers : RedisGet(kv, Key(w, "alive")) # "nil"}
BusyNow == {w \in Live : RedisGet(kv, Key(w, "busy")) = "1"}
LiveSuccess == SumOver([w \in Workers |-> Success(w)], Live)
LiveFail == SumOver([w \in Workers |-> Fail(w)], Live)

\* C11: in every dict collect_metrics returns, worker_utilization is
\* busy_workers / active_workers, or 0.0 for no active worker, and
\* busy_workers is between 0 and active_workers; a call made with the
\* broker reachable and nothing but the collector acting returns as
\* active_workers the number of listed ids and as busy_workers the number
\* of them whose busy cell reads 1 (an absent cell counting as 0).
C11_BusyAndUtilization ==
    /\ snap # NoSnap =>
         /\ snap.busy_workers \in 0..snap.active_workers
         /\ snap.worker_utilization[2] > 0
         /\ IF snap.active_workers > 0
            THEN snap.worker_utilization[1] * snap.active_workers
                    = snap.busy_workers * snap.worker_utilization[2]
            ELSE snap.worker_utilization = <<0, 1>>
    /\ (calm >= 1 /\ brokerUp) =>
         /\ snap.active_workers = Cardinality(Live)
         /\ snap.busy_workers = Cardinality(BusyNow)
C11_Witness ==
    /\ calm >= 1 /\ brokerUp
    /\ snap.active_workers = 2 /\ snap.worker_utilization = <<1, 2>>
    /\ \E w \in Live : RedisGet(kv, Key(w, "busy")) = "nil"

\* C12: a call made with the broker reachable and nothing but the
\* collector acting returns as success_rate 100 * success / (success +
\* fail) over the counters of the listed workers, and 100.0 when these
\* add up to 0; no dict returned has a success_rate outside 0..100.
C12_SuccessRate ==
    /\ snap # NoSnap =>
         /\ snap.success_rate[2] > 0
         /\ Geq(snap.success_rate, <<0, 1>>)
         /\ Geq(<<100, 1>>, snap.success_rate)
    /\ (calm >= 1 /\ brokerUp) =>
         IF LiveSuccess + LiveFail > 0
         THEN snap.success_rate[1] * (LiveSuccess + LiveFail)
                 = 100 * LiveSuccess * snap.success_rate[2]
         ELSE snap.success_rate = <<100, 1>>
C12_Witness ==
    /\ calm >= 1 /\ brokerUp
    /\ snap.success_rate = <<50, 1>>
    /\ \A w \in Workers : w \in Live /\ Success(w) + Fail(w) = 1

\* C13: a read of collect_metrics that fails is replaced by its default
\* (no listed worker, busy 0, counters 0, queue_length -1), every read
\* after it is still made, in the order of the call, and the call returns
\* a dict.
C13_SubReadFailureContinues ==
    [][/\ (col = "idle" /\ col' # col /\ ~brokerUp)
            => (colIds' = {} /\ acc' = NoAcc)
       /\ (col \in {"busy", "success", "fail"} /\ col' # col /\ ~brokerUp)
            => acc' = acc
       /\ (col = "busy" /\ col' # col) => col' = "success"
       /\ (col = "success" /\ col' # col) => col' = "fail"
       /\ (col = "llen" /\ col' # col)
            => /\ col' = "idle" /\ snap' # NoSnap
               /\ ~brokerUp => snap'.queue_length = -1]_vars

\* C14: a status request made while the broker is unreachable is answered
\* with the empty listing, count 0.
C14_DirectoryDegrades ==
    [][(col = "idle" /\ col' # col /\ ~brokerUp)
          => resp' = [status |-> 200, active_workers |-> {}, count |-> 0]]_vars

\* C15: a status request answered by a reachable broker lists exactly the
\* ids with an alive cell in the store at that moment, and answers as the
\* request before it did when nothing but the collector acted in between.
C15_ListingIdempotent ==
    [][(col = "idle" /\ col' # col /\ brokerUp) =>
          /\ resp' = [status |-> 200, active_workers |-> Live,
                      count |-> Cardinality(Live)]
          /\ resp # NoResp => resp' = resp]_vars
C15_Witness ==
    /\ calm >= 1 /\ col # "idle"
    /\ resp.status = 200 /\ resp.active_workers = {"w1"}
    /\ Running("w2")

\* what the engine was handed
RecN == recArgs.current_workers
RecQ == recArgs.snapshot.queue_length
RecU == recArgs.snapshot.worker_utilization
RecSR == recArgs.snapshot.success_rate
Recommended == rec # NoRecommendation

\* C16: for a worker count below 2 the engine returns scale_up with
\* urgency high and two workers more, whatever the snapshot; the CLI
\* advises to add workers for such a count.
C16_Rule1MinimumFleet ==
    /\ (Recommended /\ RecN < 2) =>
          /\ rec.action = "scale_up" /\ rec.urgency = "high"
          /\ rec.recommended_workers = RecN + 2
    /\ (shown # NoAdvice /\ RecN < 2) => shown = "Aumentar workers"
C16_Witness ==
    /\ Recommended /\ shown = "Aumentar workers"
    /\ RecN = 1 /\ RecQ = 0 /\ RecU = <<0, 1>> /\ RecSR = <<100, 1>>
    /\ rec.action = "scale_up" /\ rec.urgency = "high"
    /\ rec.recommended_workers = 3

\* C17: for a worker count of 2 or more, a queue of 5 or more and a
\* utilization of 0.8 or more the engine returns scale_up with urgency
\* high and as many workers more as the least k with 5 * k >= queue_length.
C17_Rule2Backlog ==
    (Recommended /\ RecN >= 2 /\ RecQ >= 5 /\ 5 * RecU[1] >= 4 * RecU[2]) =>
        /\ rec.action = "scale_up" /\ rec.urgency = "high"
        /\ LET k == rec.recommended_workers - RecN IN
              5 * k >= RecQ /\ 5 * (k - 1) < RecQ
C17_Witness ==
    /\ Recommended
    /\ RecN = 4 /\ RecQ = 8 /\ RecU = <<9, 10>>
    /\ rec.action = "scale_up" /\ rec.urgency = "high"
    /\ rec.recommended_workers = 6

\* C18: the engine returns scale_down exactly for a worker count above 2
\* with a utilization of 0.2 or less, a queue length of 0 and a success
\* rate of 70 or more, and then with urgency low and one worker less.
C18_Rule5ScaleDown ==
    Recommended =>
        /\ rec.action = "scale_down" <=>
              /\ RecN > 2 /\ RecQ = 0
              /\ 5 * RecU[1] <= RecU[2]
              /\ RecSR[1] >= 70 * RecSR[2]
        /\ rec.action = "scale_down" =>
              rec.urgency = "low" /\ rec.recommended_workers = RecN - 1
C18_Witness ==
    /\ Recommended
    /\ RecN = 3 /\ RecQ = 0 /\ RecU = <<1, 10>> /\ RecSR = <<100, 1>>
    /\ rec.action = "scale_down" /\ rec.urgency = "low"
    /\ rec.recommended_workers = 2

\* C19: for a worker count of 2 or more, a utilization below 0.8 and a
\* success rate below 70, the engine returns scale_up with urgency medium
\* and one worker more if the utilization is above 0.5, and otherwise
\* maintain with urgency low and the worker count as it is.
C19_Rule4TwoFactor ==
    (Recommended /\ RecN >= 2 /\ 5 * RecU[1] < 4 * RecU[2]
        /\ RecSR[1] < 70 * RecSR[2]) =>
        IF 2 * RecU[1] > RecU[2]
        THEN /\ rec.action = "scale_up" /\ rec.urgency = "medium"
             /\ rec.recommended_workers = RecN + 1
        ELSE /\ rec.action = "maintain" /\ rec.urgency = "low"
             /\ rec.recommended_workers = RecN
C19_Witness ==
    /\ Recommended
    /\ RecN = 3 /\ RecQ = 8 /\ RecU = <<1, 2>> /\ RecSR = <<50, 1>>
    /\ rec.action = "maintain" /\ rec.urgency = "low"
    /\ rec.recommended_workers = 3

\* C21: the list grows only by a push; a pop takes the head off the list
\* before the worker has written busy or attempted anything; a task whose
\* worker died holding it stays out of the list and out of every counter:
\* popped tasks are counted, in progress or lost, each exactly one of these.
InProgress == Cardinality({w \in Workers : pc[w] \in InFlight})
Lost == SumOver(lost, Workers)
C21_AtMostOnce ==
    /\ [](Counted + InProgress + Lost = pushed - Len(queue))
    /\ [][/\ Len(queue') > Len(queue) => (pushed' = pushed + 1 /\ pc' = pc)
          /\ \A w \in Workers :
                /\ taken'[w] # taken[w] =>
                      /\ queue' = Tail(queue) /\ pc[w] = "blpop"
                      /\ steps'[w] = <<>> /\ kv' = kv
                /\ lost'[w] >= lost[w]
                /\ lost'[w] > lost[w] =>
                      (Len(queue') <= Len(queue) /\ Counted' = Counted)]_vars
C21_Witness ==
    /\ queue = <<>> /\ pushed = 3
    /\ \A w \in Workers : Idle(w)
    /\ \E w \in Workers : pc[w] = "blpop"
    /\ Lost = 1 /\ Counted = 2

\* C22: a worker waiting at its pop when the broker is unreachable does
\* not end by an exception.
C22_PopSurvivesOutage ==
    [][\A w \in Workers : (pc[w] = "blpop" /\ ~brokerUp) => pc'[w] # "dead"]_vars

\* C23: the elements of the list are, from head to tail, those of the
\* pushes not yet popped, in the order pushed: the k-th pop, by whichever
\* worker, takes the element of the k-th push.
Popped == SumOver(taken, Workers)
C23_Fifo ==
    /\ Len(qseq) = Len(queue)
    /\ \A i \in 1..Len(qseq) : qseq[i] = Popped + i
C23_Witness ==
    /\ queue = <<NoFiltersTask>> /\ qseq = <<3>>
    /\ pc["w1"] = "process" /\ data["w1"] = BogusTask
    /\ pc["w2"] = "process" /\ data["w2"] = SendTask

\* C24: whatever the task loop is doing -- waiting at its pop or in the
\* middle of a task, however long -- the heartbeat thread of a worker
\* publishes each time its sleep of 5 s is over: from 5 s after the start
\* the worker is listed and its last publication is as old as the sleep
\* under way.  No step of the task loop touches the timer or the alive
\* cell, no publication touches the task loop.
C24_HeartbeatIndependent ==
    /\ [](\A w \in Workers :
            (hb[w] = "run" /\ upAge[w] >= HEARTBEAT_SLEEP) =>
               /\ w \in ClusterStatus(kv)
               /\ aliveAge[w] = HEARTBEAT_SLEEP - hbTimer[w])
    /\ [][\A w \in Workers :
            /\ (Running(w) /\ pc'[w] # pc[w] /\ pc'[w] \notin {"off", "dead"}) =>
                  /\ hb'[w] = hb[w] /\ hbTimer'[w] = hbTimer[w]
                  /\ kv'[Key(w, "alive")] = kv[Key(w, "alive")]
            /\ aliveAge'[w] < aliveAge[w] =>
                  /\ pc'[w] = pc[w] /\ data'[w] = data[w]
                  /\ result'[w] = result[w]]_vars
C24_Witness ==
    \E w \in Workers :
        /\ pc[w] = "process" /\ busyAge[w] > HEARTBEAT_TTL
        /\ hb[w] = "run" /\ aliveAge[w] = 0
        /\ w \in ClusterStatus(kv)

\* C25: a worker at its pop with the list empty stays there (unless it is
\* terminated from outside), and once the steady worker runs, every task
\* pushed is eventually popped and eventually counted by a success or
\* fail counter.
C25_EveryTaskCounted ==
    /\ [][\A w \in Workers :
            (pc[w] = "blpop" /\ queue = <<>>) => pc'[w] \in {"blpop", "off"}]_vars
    /\ Running(Steady) ~> (queue = <<>> /\ Counted = pushed)
\* C25, amended: ... eventually popped, and eventually counted unless the
\* worker that popped it was terminated before counting it.
C25_EveryTaskCountedOrLost ==
    /\ [][\A w \in Workers :
            (pc[w] = "blpop" /\ queue = <<>>) => pc'[w] \in {"blpop", "off"}]_vars
    /\ Running(Steady) ~> (queue = <<>> /\ Counted + Lost = pushed)
C25_Witness ==
    /\ queue = <<>> /\ pushed = 3
    /\ pc[Steady] = "blpop" /\ taken[Steady] >= 1
    /\ Lost = 1 /\ Counted = 2

\* C26: no step lowers a success or fail counter: not the passing of time
\* (the cells have no expiry), not a death or a restart of the worker under
\* the same identity, not a publication.
C26_CountersMonotone ==
    /\ [](\A w \in Workers :
            /\ kv[Key(w, "success")].ttl = 0
            /\ kv[Key(w, "fail")].ttl = 0)
    /\ [][\A w \in Workers :
            /\ Success(w)' >= Success(w)
            /\ Fail(w)' >= Fail(w)]_vars
C26_Witness ==
    \E w \in Workers :
        /\ pc[w] = "blpop" /\ upAge[w] = 0
        /\ busyAge[w] > BUSY_TTL
        /\ Success(w) = 1 /\ Fail(w) = 1

\* the names of the batch's filter list are all registered
AllRegistered ==
    \A i \in 1..Len(bFilters) : bFilters[i] \in AVAILABLE_FILTERS
FinishedTasks == {i \in 1..bPaths : fut[i].state = "done"}

\* C27: a task whose filter list holds an unregistered name ends with an
\* error result without the image having been opened, a filter applied or
\* a file written, also when valid names precede the bad one; in the
\* thread task and in the process task alike.
C27_EagerValidation ==
    \A i \in FinishedTasks :
        ~AllRegistered =>
            /\ fut[i].out.status = "error"
            /\ ~fut[i].out.opened
            /\ fut[i].out.applied = <<>>
            /\ fut[i].out.processed_path # "file"
C27_Witness ==
    /\ bMode = "threads" /\ bFilters = <<"resize", "sepia">>
    /\ bPaths = 3 /\ returned /\ Len(results) = 3
    /\ \A k \in 1..3 : results[k].out.status = "error" /\ ~results[k].out.opened

\* C28: a task whose names are all registered and that wrote its output
\* applied every filter of the list in the order given, and reports as
\* filters_applied exactly what it applied.
C28_AppliesEveryFilter ==
    \A i \in FinishedTasks :
        (AllRegistered /\ fut[i].out.processed_path = "file") =>
            /\ fut[i].out.applied = bFilters
            /\ fut[i].out.reported = fut[i].out.applied

\* C29: a batch call returns one result per image submitted, whatever
\* the order of completion and whatever failed.
C29_OneResultPerImage ==
    returned =>
        /\ Len(results) = bPaths
        /\ \A i \in 1..bPaths :
              Cardinality({k \in 1..Len(results) : results[k].image = i}) = 1

\* C30: every result of a batch has a status that is "success" or
\* "error", and "success" exactly when an output file was written.
C30_StatusField ==
    \A k \in 1..Len(results) :
        /\ results[k].out.status \in {"success", "error"}
        /\ results[k].out.status = "success"
              <=> results[k].out.processed_path = "file"

\* C31: every dict collect_metrics returns has 0 <= busy_workers <=
\* active_workers, 0 <= worker_utilization <= 1 and 0 <= success_rate <=
\* 100, whatever the broker did and whatever the workers wrote between
\* the reads of the call; during a call busy_workers never exceeds the
\* number of listed ids already visited.
C31_SnapshotRanges ==
    /\ acc.busy_workers \in 0..(acc.active_workers - Cardinality(colIds))
    /\ snap # NoSnap =>
         /\ snap.busy_workers \in 0..snap.active_workers
         /\ Geq(snap.worker_utilization, <<0, 1>>)
         /\ Geq(<<1, 1>>, snap.worker_utilization)
         /\ Geq(snap.success_rate, <<0, 1>>)
         /\ Geq(<<100, 1>>, snap.success_rate)
\* a call the workers wrote into: both listed workers read busy, the one
\* fail counted while the call ran is the only task counted
C31_Witness ==
    /\ snap # NoSnap /\ calm = 0
    /\ snap.active_workers = 2 /\ snap.busy_workers = 2
    /\ snap.worker_utilization = <<1, 1>>
    /\ snap.success_rate = <<0, 1>>

\* C32: while a running worker is between its set_busy(1) and its
\* set_busy(0), its busy cell reads 1, however long the task takes.
C32_BusyWhileWorking ==
    \A w \in Workers :
        pc[w] \in {"process", "count", "except", "set_busy0"} =>
            RedisGet(kv, Key(w, "busy")) = "1"

\* C33: a task popped and not yet counted is held by a worker whose busy
\* cell reads 1: when the list is empty and no busy cell reads 1, no
\* worker holds a task.
C33_NoInvisibleWork ==
    (queue = <<>> /\ \A w \in Workers : RedisGet(kv, Key(w, "busy")) # "1")
        => InProgress = 0

\* C34: the fail counter of a worker never goes up for a task whose
\* result has status "success", and a task is counted at most once, also
\* when a counter write raised.
C34_TruthfulCount ==
    [][\A w \in Workers :
          /\ Fail(w)' > Fail(w) => result[w].status # "success"
          /\ Success(w)' + Fail(w)' > Success(w) + Fail(w) =>
                "count" \notin {steps[w][i] : i \in 1..Len(steps[w])}]_vars

\* C35: a worker holding a task it popped and has not finished is
\* listed by the cluster status: no pop before the first publication of
\* the worker, none after its heartbeat thread has stopped.
C35_HolderIsListed ==
    \A w \in Workers :
        pc[w] \in InFlight \cup {"set_busy0"} => w \in ClusterStatus(kv)

\* C36: from one call of collect_metrics to the next the totals never go
\* back: when a call of the dashboard loop has made its reads,
\* total_success and total_fail are not below those of the call before,
\* also when the alive cell of a worker expired in between.
C36_TotalsMonotone ==
    (col = "llen" /\ polled # NoDashboard /\ polled # NoPoll) =>
        /\ acc.total_success >= polled[1]
        /\ acc.total_fail >= polled[2]

\* C37: every Recommendation has one of the three actions and one of the
\* four urgencies and is about the worker count handed in; scale_up comes
\* with more workers than there are, scale_down with exactly one less and
\* never less than 2, maintain with the worker count as it is.
C37_RecommendationConsistent ==
    Recommended =>
        /\ rec.action \in {"scale_up", "scale_down", "maintain"}
        /\ rec.urgency \in {"none", "low", "medium", "high"}
        /\ rec.current_workers = RecN
        /\ rec.action = "scale_up" => rec.recommended_workers > RecN
        /\ rec.action = "scale_down" =>
              /\ rec.recommended_workers = RecN - 1
              /\ rec.recommended_workers >= 2
        /\ rec.action = "maintain" => rec.recommended_workers = RecN
\* the smallest fleet that is scaled down, at the least success rate that
\* is not a failing one
C37_Witness ==
    /\ Recommended
    /\ RecN = 3 /\ RecQ = 0 /\ RecU = <<0, 1>> /\ RecSR = <<70, 1>>
    /\ rec.action = "scale_down" /\ rec.recommended_workers = 2

\* C38: a request to process_image_view that was answered processed
\* exactly the bytes it uploaded, also when another request uploading a
\* file of the same name ran at the same time.
C38_OwnBytesProcessed ==
    \A r \in Requests :
        upPc[r] = "200" => upSeen[r] = Upload(r, upChunks[r])

====
